---- MODULE Spec2Model ----
(***************************************************************************)
(* Grocery meal planner server: the relational store (users,              *)
(* inventory_items, meal_plans) and the request handlers that read and    *)
(* write it.  Each handler is one action; the wall clock is the variable  *)
(* now, advanced by Tick.  For requests that overlap, the handlers that   *)
(* write in more than one storage call are also given storage call by     *)
(* storage call, with the requests in flight kept in the variable calls.  *)
(*                                                                        *)
(* Time is counted in clock units of 1/DayUnits day.  A calendar date     *)
(* (SQL date column, "YYYY-MM-DD") is a day number counted from           *)
(* 1970-01-01; an instant (JS Date, SQL timestamp) is a number of clock   *)
(* units since 1970-01-01T00:00Z.  The application clock and the database *)
(* clock (defaultNow) are taken to be the same clock.  Local calendar     *)
(* arithmetic (setDate, getDay, setHours) is done at the offset tz from   *)
(* UTC; daylight-saving transitions are not modelled.                     *)
(*                                                                        *)
(* The serial id of inventory_items rows is not represented: no handler   *)
(* reads it.                                                              *)
(***************************************************************************)
EXTENDS Integers, Sequences, FiniteSets, TLC

VARIABLES
  tz,         \* offset of the server's local time from UTC, in clock units
  now,        \* current instant (new Date() / defaultNow())
  users,      \* usersTable, rows in insertion order
  inventory,  \* inventoryItemsTable, rows in insertion order
  mealPlans,  \* mealPlansTable, rows in insertion order
  last,       \* the most recent handler call: its input and what it returned
  calls       \* the requests in flight: where each is in its handler

vars == <<tz, now, users, inventory, mealPlans, last, calls>>

-----------------------------------------------------------------------------
(* Bounds *)

MaxTicks == 1     \* how many times the clock advances
MaxItems == 2     \* longest upstream inventory payload
MaxPlans == 2     \* most meal plan rows

(* Units *)

DayUnits == 4     \* clock units per day (one unit is six hours)

\* the clock starts one unit before the midnight that ends day 0, so that
\* the first tick crosses a day boundary
ClockStart == DayUnits - 1

(* SQL NULL / JS null in a text column *)
NULL == "NULL"

(* SQL NULL / JS null in a date column or a Date value; no day number and
   no instant of the model is this low *)
NULLDATE == -1000

(* JS Invalid Date (time value NaN) *)
InvalidDate == -2000

Households == {"h1", "h2"}
Endpoints == {"https://e1", "https://e2"}
\* "" is a string the input schema accepts (z.string() without min)
Channels == {"", "#kitchen"}

Has(input, f) == f \in DOMAIN input

\* the requests the server may be handling at once, and a free one
Requests == {"r1", "r2"}
Idle == [at |-> "idle"]

-----------------------------------------------------------------------------
(* Account manager *)

\* connectUserInputSchema: slack_channel and auto_send_slack are optional
\* (an explicit null channel and an explicit false flag are stored exactly as
\* the omitted ones are, and are left out of the enumeration)
ConnectUserInputs ==
  LET base == [household_id : Households, inventory_endpoint : Endpoints]
      withC == [household_id : Households, inventory_endpoint : Endpoints,
                slack_channel : Channels]
      withA == [household_id : Households, inventory_endpoint : Endpoints,
                auto_send_slack : {TRUE}]
      withCA == [household_id : Households, inventory_endpoint : Endpoints,
                 slack_channel : Channels, auto_send_slack : {TRUE}]
  IN base \cup withC \cup withA \cup withCA

\* input.slack_channel || null : undefined, null and "" are falsy
SlackChannelOrNull(input) ==
  IF Has(input, "slack_channel") /\ input.slack_channel \notin {NULL, ""}
  THEN input.slack_channel ELSE NULL

\* input.auto_send_slack || false
AutoSendSlackOrFalse(input) ==
  Has(input, "auto_send_slack") /\ input.auto_send_slack

\* db.select().from(usersTable).where(eq(usersTable.household_id, h))
SelectUsersByHouseholdLost(h) == << >>
SelectUsersByHousehold(h) ==
  SelectSeq(users, LAMBDA u : u.household_id = h)

\* db.select().from(usersTable).where(eq(usersTable.id, id))
SelectUsersIgnoringId(id) == users
SelectUsersById(id) ==
  SelectSeq(users, LAMBDA u : u.id = id)

\* db.update(usersTable).set(set).where(eq(usersTable.id, id)).returning():
\* the table after the update
UpdateUsersWhereId(id, set) ==
  [i \in DOMAIN users |->
     IF users[i].id = id
     THEN [f \in DOMAIN users[i] |->
             IF f \in DOMAIN set THEN set[f] ELSE users[i][f]]
     ELSE users[i]]

\* the .set({...}) of connectUser's update branch
ConnectUpdateDataNoStamp(input) ==
  [inventory_endpoint |-> input.inventory_endpoint,
   slack_channel |-> SlackChannelOrNull(input),
   auto_send_slack |-> AutoSendSlackOrFalse(input)]
ConnectUpdateData(input) ==
  [inventory_endpoint |-> input.inventory_endpoint,
   slack_channel |-> SlackChannelOrNull(input),
   auto_send_slack |-> AutoSendSlackOrFalse(input),
   updated_at |-> now]

\* the .values({...}) of connectUser's insert branch; id is the serial
\* column (rows are never deleted and inserts never fail, so the next value
\* is one past the row count); created_at and updated_at default to now
ConnectNewUser(input) ==
  [id |-> Len(users) + 1,
   household_id |-> input.household_id,
   inventory_endpoint |-> input.inventory_endpoint,
   slack_channel |-> SlackChannelOrNull(input),
   auto_send_slack |-> AutoSendSlackOrFalse(input),
   created_at |-> now,
   updated_at |-> now]

connectUser(input) ==
  LET existingUsers == SelectUsersByHousehold(input.household_id)
  IN /\ IF Len(existingUsers) > 0
        THEN LET existingUser == existingUsers[1]
                 updated == UpdateUsersWhereId(existingUser.id,
                                               ConnectUpdateData(input))
             IN /\ users' = updated
                /\ last' = [op |-> "connectUser", input |-> input,
                            outcome |-> "ok",
                            result |-> SelectSeq(updated,
                                         LAMBDA u : u.id = existingUser.id)[1]]
        ELSE LET newUser == ConnectNewUser(input)
             IN /\ users' = Append(users, newUser)
                /\ last' = [op |-> "connectUser", input |-> input,
                            outcome |-> "ok", result |-> newUser]
     /\ UNCHANGED <<calls, tz, now, inventory, mealPlans>>

\* ids a caller may name; an id is unknown until that many users exist
UserIds == 1 .. Cardinality(Households)

\* updateUserSettingsInputSchema: slack_channel and auto_send_slack optional
UpdateUserSettingsInputs ==
  [id : UserIds]
    \cup [id : UserIds, slack_channel : Channels \cup {NULL}]
    \cup [id : UserIds, auto_send_slack : BOOLEAN]
    \cup [id : UserIds, slack_channel : Channels \cup {NULL},
          auto_send_slack : BOOLEAN]

\* updateData: updated_at always, the other fields only when !== undefined
SettingsUpdateDataAll(input) ==
  [f \in {"updated_at", "slack_channel", "auto_send_slack"} |->
     CASE f = "updated_at" -> now
       [] f = "slack_channel" ->
            IF Has(input, "slack_channel") THEN input.slack_channel ELSE NULL
       [] f = "auto_send_slack" ->
            Has(input, "auto_send_slack") /\ input.auto_send_slack]
SettingsUpdateData(input) ==
  [f \in {"updated_at"}
         \cup (IF Has(input, "slack_channel") THEN {"slack_channel"} ELSE {})
         \cup (IF Has(input, "auto_send_slack") THEN {"auto_send_slack"} ELSE {})
     |-> IF f = "updated_at" THEN now ELSE input[f]]

updateUserSettings(input) ==
  LET updated == UpdateUsersWhereId(input.id, SettingsUpdateData(input))
      result == SelectSeq(updated, LAMBDA u : u.id = input.id)
  IN /\ IF Len(result) = 0
        THEN /\ users' = users
             /\ last' = [op |-> "updateUserSettings", input |-> input,
                         outcome |-> "NotFound"]
        ELSE /\ users' = updated
             /\ last' = [op |-> "updateUserSettings", input |-> input,
                         outcome |-> "ok", result |-> result[1]]
     /\ UNCHANGED <<calls, tz, now, inventory, mealPlans>>

-----------------------------------------------------------------------------
(* Dates *)

\* new Date("YYYY-MM-DD"): UTC midnight of the calendar day
DateToInstant(d) == d * DayUnits

\* date.toISOString().split('T')[0]: the UTC calendar day of an instant
ToISODate(t) == t \div DayUnits

\* const d = new Date(t); d.setDate(t.getDate() + 3)
ExpiryWindowDays == 3
ThreeDaysFromWider(t) == t + (ExpiryWindowDays + 1) * DayUnits
ThreeDaysFrom(t) == t + ExpiryWindowDays * DayUnits

-----------------------------------------------------------------------------
(* Inventory sync *)

Names == {"apple", "milk"}

\* position of a name in the collation of the name column
NameRank == [n \in Names |-> IF n = "apple" THEN 1 ELSE 2]

\* JSON values of expiry_date in an upstream entry: null, "", a string that
\* is no date, and an ISO string that denotes an instant
JsonNull == [type |-> "null"]
EmptyString == [type |-> "string", text |-> "empty"]
GarbageString == [type |-> "string", text |-> "garbage"]
IsoString(t) == [type |-> "string", text |-> "iso", instant |-> t]

\* JS truthiness of a string-or-null value
Truthy(v) == v.type = "string" /\ v.text # "empty"

\* new Date(string)
NewDate(v) == IF v.text = "iso" THEN v.instant ELSE InvalidDate

\* item.expiry_date ? new Date(item.expiry_date) : null
ExpiryDateOf(item) ==
  IF Truthy(item.expiry_date) THEN NewDate(item.expiry_date) ELSE NULLDATE

\* expiryDate ? expiryDate <= threeDaysFromNow : false
\* (a comparison with Invalid Date is false)
IsExpiringSoon(expiryDate, threeDaysFromNow) ==
  IF expiryDate # NULLDATE
  THEN expiryDate # InvalidDate /\ expiryDate <= threeDaysFromNow
  ELSE FALSE

\* lakebaseInventoryResponseSchema.parse(responseData) does not throw
ConformsToInventorySchema(body) ==
  /\ {"items", "status"} \subseteq DOMAIN body
  /\ \A i \in DOMAIN body.items :
       {"name", "quantity", "unit", "expiry_date"} \subseteq DOMAIN body.items[i]

\* the checks of the response that precede the delete: why the refresh
\* fails, or "none"
UpstreamFailureNoStatusCheck(response) ==
  IF response.kind = "unreachable" THEN "unreachable"
  ELSE IF ~ response.ok THEN "http_status"
  ELSE IF ~ ConformsToInventorySchema(response.body) THEN "schema"
  ELSE "none"
UpstreamFailure(response) ==
  IF response.kind = "unreachable" THEN "unreachable"
  ELSE IF ~ response.ok THEN "http_status"
  ELSE IF ~ ConformsToInventorySchema(response.body) THEN "schema"
  ELSE IF response.body.status # "success" THEN "status_field"
  ELSE "none"

\* db.delete(inventoryItemsTable).where(eq(inventoryItemsTable.user_id, id)):
\* the table after the delete
DeleteInventoryOfNobody(user_id) == inventory
DeleteInventoryOf(user_id) ==
  SelectSeq(inventory, LAMBDA r : r.user_id # user_id)

\* one element of inventoryData, as inserted (created_at and updated_at
\* default to now)
InventoryDataOfFirstUser(user_id, item, threeDaysFromNow) ==
  LET expiryDate == ExpiryDateOf(item)
  IN [user_id |-> 1,
      name |-> item.name,
      quantity |-> item.quantity,
      unit |-> item.unit,
      expiry_date |-> IF expiryDate # NULLDATE THEN ToISODate(expiryDate)
                                               ELSE NULLDATE,
      is_expiring_soon |-> IsExpiringSoon(expiryDate, threeDaysFromNow),
      created_at |-> now,
      updated_at |-> now]
InventoryData(user_id, item, threeDaysFromNow) ==
  LET expiryDate == ExpiryDateOf(item)
  IN [user_id |-> user_id,
      name |-> item.name,
      quantity |-> item.quantity,
      unit |-> item.unit,
      expiry_date |-> IF expiryDate # NULLDATE THEN ToISODate(expiryDate)
                                               ELSE NULLDATE,
      is_expiring_soon |-> IsExpiringSoon(expiryDate, threeDaysFromNow),
      created_at |-> now,
      updated_at |-> now]

\* db.select().from(inventoryItemsTable).where(eq(user_id, id)) on a table
SelectInventoryOfAnyone(table, user_id) == table
SelectInventoryOf(table, user_id) ==
  SelectSeq(table, LAMBDA r : r.user_id = user_id)

\* expiry_date: item.expiry_date ? new Date(item.expiry_date) : null
MaterializeExpiry(row) ==
  [row EXCEPT !.expiry_date =
     IF row.expiry_date # NULLDATE THEN DateToInstant(row.expiry_date)
                                   ELSE NULLDATE]

refreshInventory(input, response) ==
  LET found == SelectUsersById(input.user_id)
  IN /\ IF Len(found) = 0
        THEN /\ inventory' = inventory
             /\ last' = [op |-> "refreshInventory", input |-> input,
                         outcome |-> "NotFound", fetched |-> << >>]
        ELSE
          LET user == found[1]
              request == [url |-> user.inventory_endpoint,
                          household_id |-> user.household_id]
              failure == UpstreamFailure(response)
          IN IF failure # "none"
             THEN /\ inventory' = inventory
                  /\ last' = [op |-> "refreshInventory", input |-> input,
                              outcome |-> "UpstreamError", cause |-> failure,
                              fetched |-> <<request>>, response |-> response]
             ELSE
               LET items == response.body.items
                   cleared == DeleteInventoryOf(input.user_id)
                   threeDaysFromNow == ThreeDaysFrom(now)
                   inventoryData ==
                     [i \in DOMAIN items |->
                        InventoryData(input.user_id, items[i], threeDaysFromNow)]
               IN IF \E i \in DOMAIN items : ExpiryDateOf(items[i]) = InvalidDate
                  THEN \* expiryDate.toISOString() throws after the delete
                       /\ inventory' = cleared
                       /\ last' = [op |-> "refreshInventory", input |-> input,
                                   outcome |-> "RangeError",
                                   fetched |-> <<request>>, response |-> response,
                                   deleted |-> Len(inventory) - Len(cleared)]
                  ELSE /\ inventory' = cleared \o inventoryData
                       /\ last' = [op |-> "refreshInventory", input |-> input,
                                   outcome |-> "ok",
                                   fetched |-> <<request>>, response |-> response,
                                   deleted |-> Len(inventory) - Len(cleared),
                                   result |->
                                     LET updatedItems ==
                                           SelectInventoryOf(cleared \o inventoryData,
                                                             input.user_id)
                                     IN [i \in DOMAIN updatedItems |->
                                           MaterializeExpiry(updatedItems[i])]]
     /\ UNCHANGED <<calls, tz, now, users, mealPlans>>

-----------------------------------------------------------------------------
(* Inventory reader *)

\* ORDER BY expiry_date IS NULL, expiry_date ASC, name ASC: a may precede b
InventoryOrderNullsFirst(a, b) ==
  IF (a.expiry_date = NULLDATE) # (b.expiry_date = NULLDATE)
  THEN a.expiry_date = NULLDATE
  ELSE IF a.expiry_date # b.expiry_date
       THEN a.expiry_date < b.expiry_date
       ELSE NameRank[a.name] <= NameRank[b.name]
InventoryOrder(a, b) ==
  IF (a.expiry_date = NULLDATE) # (b.expiry_date = NULLDATE)
  THEN b.expiry_date = NULLDATE
  ELSE IF a.expiry_date # b.expiry_date
       THEN a.expiry_date < b.expiry_date
       ELSE NameRank[a.name] <= NameRank[b.name]

\* the orders in which the query may return the rows: rows that tie on
\* every sort key come in an order the database chooses
OrderedSelections(rows) ==
  LET n == Len(rows)
      perms == {p \in [1 .. n -> 1 .. n] :
                  \A i, j \in 1 .. n : i # j => p[i] # p[j]}
  IN {[i \in 1 .. n |-> rows[p[i]]] :
        p \in {q \in perms :
                 \A i, j \in 1 .. n :
                   i < j => InventoryOrder(rows[q[i]], rows[q[j]])}}

\* results.map(...): the flag is computed afresh from the stored date
InventoryView(row, threeDaysFromNow) ==
  LET expiryDate == IF row.expiry_date # NULLDATE
                    THEN DateToInstant(row.expiry_date) ELSE NULLDATE
  IN [row EXCEPT !.expiry_date = expiryDate,
                 !.is_expiring_soon =
                    IF row.expiry_date # NULLDATE
                    THEN expiryDate <= threeDaysFromNow ELSE FALSE]

getInventory(user_id) ==
  LET threeDaysFromNow == ThreeDaysFrom(now)
  IN /\ \E results \in OrderedSelections(SelectInventoryOf(inventory, user_id)) :
          last' = [op |-> "getInventory", input |-> [user_id |-> user_id],
                   outcome |-> "ok",
                   result |-> [i \in DOMAIN results |->
                                 InventoryView(results[i], threeDaysFromNow)]]
     /\ UNCHANGED <<calls, tz, now, users, inventory, mealPlans>>

-----------------------------------------------------------------------------
(* Meal plan generator *)

\* the local calendar day of an instant
LocalDay(t) == (t + tz) \div DayUnits

\* date.getDay(): 0 = Sunday ... 6 = Saturday; 1970-01-01 was a Thursday
GetDay(t) == (LocalDay(t) + 4) % 7

\* getWeekStartDate, from the parsed date or the current instant: setDate
\* moves whole local days and keeps the time of day, setHours(0, 0, 0, 0)
\* moves to the local midnight of that day
getWeekStartDate(date) ==
  LET day == GetDay(date)
      daysToSubtract == (day + 6) % 7
      monday == date - daysToSubtract * DayUnits
  IN LocalDay(monday) * DayUnits - tz

\* JSON.stringify(value): the text of a JSON document
JSONStringify(value) == [text |-> "json", value |-> value]

\* the mockResponse of callMealPlanAPI
MockPlannerResponse ==
  [meal_plan |->
     [week_start_date |-> ToISODate(now),
      daily_meals |->
        <<[date |-> ToISODate(now),
           breakfast |-> [title |-> "Scrambled Eggs with Toast",
                          ingredients_summary |-> "eggs, bread, butter"],
           lunch |-> [title |-> "Caesar Salad",
                      ingredients_summary |-> "lettuce, parmesan, croutons"],
           dinner |-> [title |-> "Grilled Chicken with Vegetables",
                       ingredients_summary |-> "chicken breast, broccoli, carrots"]]>>],
   shopping_gaps |->
     <<[ingredient |-> "eggs", quantity_needed |-> "6 pieces",
        used_for_meals |-> <<"Scrambled Eggs with Toast">>]>>,
   status |-> "success"]

\* a planner response that lacks the meal plan
MalformedPlannerResponse == [status |-> "success"]

\* what the planning service answers: the mock stands for an external
\* service, whose answer is validated like any other
PlannerResponses == {MockPlannerResponse, MalformedPlannerResponse}

\* mealPlanGenerationResponseSchema.parse(response) does not throw
ConformsToPlannerSchema(response) ==
  {"meal_plan", "shopping_gaps", "status"} \subseteq DOMAIN response

\* user.auto_send_slack && user.slack_channel
WantsSlackIgnoringChannel(user) == user.auto_send_slack
WantsSlack(user) ==
  user.auto_send_slack /\ user.slack_channel \notin {NULL, ""}

\* the sendToSlack of the generator: it logs the plan id and resolves
LocalSendToSlackThrows(mealPlanId) == "threw"
LocalSendToSlack(mealPlanId) == "logged"

\* db.insert(mealPlansTable).values(row).returning(): the table after
InsertMealPlanReplacingWeek(table, row) ==
  Append(SelectSeq(table, LAMBDA p : ~ (p.user_id = row.user_id /\
                                        p.week_start_date = row.week_start_date)),
         row)
InsertMealPlan(table, row) == Append(table, row)

\* "YYYY-MM-DD" -> the date stored for it: new Date(dateString), then
\* getWeekStartDate, then toISOString().split('T')[0]
WeekStartDateOf(dateString) ==
  ToISODate(getWeekStartDate(DateToInstant(dateString)))

\* generateMealPlanInputSchema: week_start_date, when given, is a
\* "YYYY-MM-DD" string, here the day number it denotes
generateMealPlan(input, apiResponse) ==
  LET found == SelectUsersById(input.user_id)
  IN /\ IF Len(found) = 0
        THEN /\ mealPlans' = mealPlans
             /\ last' = [op |-> "generateMealPlan", input |-> input,
                         outcome |-> "NotFound", notified |-> << >>]
        ELSE
          LET user == found[1]
              inventoryItems == SelectInventoryOf(inventory, input.user_id)
              weekStartDate ==
                getWeekStartDate(IF Has(input, "week_start_date")
                                 THEN DateToInstant(input.week_start_date)
                                 ELSE now)
          IN IF ~ ConformsToPlannerSchema(apiResponse)
             THEN /\ mealPlans' = mealPlans
                  /\ last' = [op |-> "generateMealPlan", input |-> input,
                              outcome |-> "UpstreamError", notified |-> << >>,
                              inventoryItems |-> inventoryItems,
                              response |-> apiResponse]
             ELSE
               LET mealPlan ==
                     [id |-> Len(mealPlans) + 1,
                      user_id |-> input.user_id,
                      week_start_date |-> ToISODate(weekStartDate),
                      plan_data |-> JSONStringify(apiResponse.meal_plan),
                      shopping_gaps |-> JSONStringify(apiResponse.shopping_gaps),
                      created_at |-> now,
                      updated_at |-> now]
                   \* await sendToSlack(mealPlan.id): a rejection leaves
                   \* the handler through its catch, which rethrows
                   notification == IF WantsSlack(user)
                                   THEN <<LocalSendToSlack(mealPlan.id)>>
                                   ELSE << >>
               IN /\ Len(mealPlans) < MaxPlans
                  /\ mealPlans' = InsertMealPlan(mealPlans, mealPlan)
                  /\ last' =
                       IF notification = <<"threw">>
                       THEN [op |-> "generateMealPlan", input |-> input,
                             outcome |-> "NotifyError",
                             notified |-> <<mealPlan.id>>,
                             notification |-> notification,
                             inventoryItems |-> inventoryItems,
                             response |-> apiResponse]
                       ELSE [op |-> "generateMealPlan", input |-> input,
                             outcome |-> "ok",
                             notified |-> IF WantsSlack(user)
                                          THEN <<mealPlan.id>> ELSE << >>,
                             notification |-> notification,
                             inventoryItems |-> inventoryItems,
                             response |-> apiResponse,
                             result |->
                               [mealPlan EXCEPT !.week_start_date =
                                  DateToInstant(mealPlan.week_start_date)]]
     /\ UNCHANGED <<calls, tz, now, users, inventory>>

-----------------------------------------------------------------------------
(* Plan readers *)

\* the current week's Monday of getMealPlan: today shifted by whole days,
\* with its time of day, then toISOString().split('T')[0]
CurrentWeekMonday ==
  LET dayOfWeek == GetDay(now)
      daysToMonday == IF dayOfWeek = 0 THEN -6 ELSE 1 - dayOfWeek
  IN ToISODate(now + daysToMonday * DayUnits)

\* where user_id = ... and week_start_date = targetWeekStart
SelectPlansOfAnyWeek(user_id, targetWeekStart) ==
  SelectSeq(mealPlans, LAMBDA p : p.user_id = user_id)
SelectPlansOfWeek(user_id, targetWeekStart) ==
  SelectSeq(mealPlans, LAMBDA p : p.user_id = user_id /\
                                  p.week_start_date = targetWeekStart)

\* week_start_date: new Date(mealPlan.week_start_date)
MaterializeWeekStart(row) ==
  [row EXCEPT !.week_start_date = DateToInstant(row.week_start_date)]

\* the result is no plan (null) or one plan: the query has no ORDER BY, so
\* results[0] is any of the matching rows
getMealPlan(input) ==
  LET targetWeekStart == IF Has(input, "week_start_date")
                         THEN input.week_start_date
                         ELSE CurrentWeekMonday
      results == SelectPlansOfWeek(input.user_id, targetWeekStart)
  IN /\ IF Len(results) = 0
        THEN last' = [op |-> "getMealPlan", input |-> input,
                      outcome |-> "ok", result |-> << >>]
        ELSE \E i \in DOMAIN results :
               last' = [op |-> "getMealPlan", input |-> input,
                        outcome |-> "ok",
                        result |-> <<MaterializeWeekStart(results[i])>>]
     /\ UNCHANGED <<calls, tz, now, users, inventory, mealPlans>>

\* limit: number = 10
DefaultLimit == 10

\* ORDER BY week_start_date DESC: a may precede b
RecentOrderAscending(a, b) == a.week_start_date <= b.week_start_date
RecentOrder(a, b) == a.week_start_date >= b.week_start_date

\* the orders in which the query may return the rows: plans of the same
\* week come in an order the database chooses
RecentSelections(rows) ==
  LET n == Len(rows)
      perms == {p \in [1 .. n -> 1 .. n] :
                  \A i, j \in 1 .. n : i # j => p[i] # p[j]}
  IN {[i \in 1 .. n |-> rows[p[i]]] :
        p \in {q \in perms :
                 \A i, j \in 1 .. n :
                   i < j => RecentOrder(rows[q[i]], rows[q[j]])}}

\* .limit(limit)
Limit(rows, limit) == SubSeq(rows, 1, IF limit < Len(rows) THEN limit ELSE Len(rows))

getRecentMealPlans(input) ==
  LET limit == IF Has(input, "limit") THEN input.limit ELSE DefaultLimit
      mine == SelectSeq(mealPlans, LAMBDA p : p.user_id = input.user_id)
  IN /\ \E ordered \in RecentSelections(mine) :
          LET results == Limit(ordered, limit)
          IN last' = [op |-> "getRecentMealPlans", input |-> input,
                      outcome |-> "ok",
                      result |-> [i \in DOMAIN results |->
                                    MaterializeWeekStart(results[i])]]
     /\ UNCHANGED <<calls, tz, now, users, inventory, mealPlans>>

-----------------------------------------------------------------------------
(* Messaging notifier *)

\* a stored text that is no JSON document
InvalidJsonText == [text |-> "invalid json string"]

\* JSON.parse(text) throws
JSONParseThrows(text) == text.text # "json"

\* JSON.parse(text)
JSONParse(text) == text.value

\* formatMealPlanForSlack throws: weeklyPlan.daily_meals.forEach of a
\* document that has no daily_meals
FormatThrows(weeklyPlan, shoppingGaps) == "daily_meals" \notin DOMAIN weeklyPlan

\* the message: the header with the week, a block per day, the list of gaps
formatMealPlanForSlack(weeklyPlan, shoppingGaps) ==
  [week |-> weeklyPlan.week_start_date,
   days |-> [i \in DOMAIN weeklyPlan.daily_meals |-> weeklyPlan.daily_meals[i].date],
   gaps |-> [i \in DOMAIN shoppingGaps |-> shoppingGaps[i].ingredient]]

\* sendMessageToSlack throws: !channel || !message; the message is never
\* empty, it starts with the header
SendMessageThrows(channel, message) == channel \in {NULL, ""}

\* the store answers queries, or the query rejects
Storage == {"up", "down"}

Thrown(message) == [kind |-> "thrown", message |-> message]
Returned(value) == [kind |-> "returned", value |-> value]

\* the try block of sendToSlack: what it returns or throws
SendAttempt(input, storage) ==
  LET plans == SelectSeq(mealPlans, LAMBDA p : p.id = input.meal_plan_id)
  IN IF storage = "down" THEN Thrown("storage failure")
     ELSE IF Len(plans) = 0 \/ Len(SelectUsersById(plans[1].user_id)) = 0
     THEN Thrown("Meal plan not found")
     ELSE
       LET mealPlan == plans[1]
           user == SelectUsersById(mealPlan.user_id)[1]
       IN IF user.slack_channel \in {NULL, ""}
          THEN Thrown("User does not have a Slack channel configured")
          ELSE IF JSONParseThrows(mealPlan.plan_data)
                    \/ JSONParseThrows(mealPlan.shopping_gaps)
          THEN Thrown("Invalid meal plan data format")
          ELSE
            LET weeklyPlan == JSONParse(mealPlan.plan_data)
                shoppingGaps == JSONParse(mealPlan.shopping_gaps)
            IN IF FormatThrows(weeklyPlan, shoppingGaps)
               THEN Thrown("TypeError")
               ELSE IF SendMessageThrows(user.slack_channel,
                         formatMealPlanForSlack(weeklyPlan, shoppingGaps))
               THEN Thrown("Invalid Slack channel or message")
               ELSE Returned([success |-> TRUE,
                              message |-> "Meal plan sent to Slack successfully",
                              channel |-> user.slack_channel])

\* the catch block of sendToSlack: an error becomes a result value
CatchRethrows(error) == error
Catch(error) ==
  Returned([success |-> FALSE, message |-> error.message])

sendToSlack(input, storage) ==
  LET attempt == SendAttempt(input, storage)
      completion == IF attempt.kind = "thrown" THEN Catch(attempt) ELSE attempt
  IN /\ last' = IF completion.kind = "returned"
                THEN [op |-> "sendToSlack", input |-> input,
                      storage |-> storage, outcome |-> "returned",
                      result |-> completion.value]
                ELSE [op |-> "sendToSlack", input |-> input,
                      storage |-> storage, outcome |-> "threw",
                      error |-> completion.message]
     /\ UNCHANGED <<calls, tz, now, users, inventory, mealPlans>>

-----------------------------------------------------------------------------
(* Handlers, storage call by storage call *)

\* A request r goes through its handler one awaited storage call at a time;
\* calls[r].at names the call it will make next.  Calls that neither read
\* nor write a table another request writes are taken together with the
\* call before them.

\* connectUser: the lookup by household
connectUserLookup(r, input) ==
  /\ calls[r] = Idle
  /\ calls' = [calls EXCEPT ![r] =
                 [at |-> "connect.write", input |-> input,
                  existingUsers |-> SelectUsersByHousehold(input.household_id)]]
  /\ last' = [op |-> "connectUser.lookup", request |-> r, input |-> input]
  /\ UNCHANGED <<tz, now, users, inventory, mealPlans>>

\* existingUsers when the handler branches on it: what the lookup returned
ExistingUsersReadAgain(call) ==
  SelectUsersByHousehold(call.input.household_id)
ExistingUsers(call) == call.existingUsers

\* connectUser: the update or the insert
connectUserWrite(r) ==
  /\ calls[r].at = "connect.write"
  /\ LET input == calls[r].input
         existingUsers == ExistingUsers(calls[r])
     IN IF Len(existingUsers) > 0
        THEN LET existingUser == existingUsers[1]
                 updated == UpdateUsersWhereId(existingUser.id,
                                               ConnectUpdateData(input))
             IN /\ users' = updated
                /\ last' = [op |-> "connectUser", request |-> r,
                            input |-> input, outcome |-> "ok",
                            looked |-> calls[r].existingUsers,
                            result |-> SelectSeq(updated,
                                         LAMBDA u : u.id = existingUser.id)[1]]
        ELSE LET newUser == ConnectNewUser(input)
             IN /\ users' = Append(users, newUser)
                /\ last' = [op |-> "connectUser", request |-> r,
                            input |-> input, outcome |-> "ok",
                            looked |-> calls[r].existingUsers,
                            result |-> newUser]
  /\ calls' = [calls EXCEPT ![r] = Idle]
  /\ UNCHANGED <<tz, now, inventory, mealPlans>>

\* users.length === 0 in refreshInventory
RefreshUserMissingNever(found) == FALSE
RefreshUserMissing(found) == Len(found) = 0

\* refreshInventory: the user lookup, the fetch and the checks of the
\* response
refreshInventoryFetch(r, input, response) ==
  /\ calls[r] = Idle
  /\ LET found == SelectUsersById(input.user_id)
     IN IF RefreshUserMissing(found)
        THEN /\ calls' = calls
             /\ last' = [op |-> "refreshInventory", request |-> r,
                         input |-> input, outcome |-> "NotFound"]
        ELSE IF UpstreamFailure(response) # "none"
        THEN /\ calls' = calls
             /\ last' = [op |-> "refreshInventory", request |-> r,
                         input |-> input, outcome |-> "UpstreamError",
                         cause |-> UpstreamFailure(response)]
        ELSE /\ calls' = [calls EXCEPT ![r] =
                            [at |-> "refresh.delete", input |-> input,
                             items |-> response.body.items]]
             /\ last' = [op |-> "refreshInventory.fetch", request |-> r,
                         input |-> input]
  /\ UNCHANGED <<tz, now, users, inventory, mealPlans>>

\* refreshInventory: the delete
refreshInventoryDelete(r) ==
  /\ calls[r].at = "refresh.delete"
  /\ LET call == calls[r]
         deleted == SelectInventoryOf(inventory, call.input.user_id)
     IN /\ inventory' = DeleteInventoryOf(call.input.user_id)
        /\ calls' = [calls EXCEPT ![r] =
                       [at |-> "refresh.insert", input |-> call.input,
                        items |-> call.items, deleted |-> deleted]]
        /\ last' = [op |-> "refreshInventory.delete", request |-> r,
                    input |-> call.input, deleted |-> deleted]
  /\ UNCHANGED <<tz, now, users, mealPlans>>

\* db.insert(inventoryItemsTable).values(inventoryData): the table after
InsertInventoryReplacing(table, rows) ==
  SelectSeq(table, LAMBDA t : \A i \in DOMAIN rows : rows[i].user_id # t.user_id)
    \o rows
InsertInventory(table, rows) == table \o rows

\* the table after an insert that the store rejected: the insert wrote
\* nothing, and the delete before it stays done (no transaction)
AfterRejectedInsertRestoring(table, deleted) == table \o deleted
AfterRejectedInsert(table, deleted) == table

\* refreshInventory: inventoryData and its insert, which the store may
\* reject; no insert is made for an empty payload
refreshInventoryInsert(r, storage) ==
  /\ calls[r].at = "refresh.insert"
  /\ LET call == calls[r]
         items == call.items
         threeDaysFromNow == ThreeDaysFrom(now)
         inventoryData ==
           [i \in DOMAIN items |->
              InventoryData(call.input.user_id, items[i], threeDaysFromNow)]
     IN IF \E i \in DOMAIN items : ExpiryDateOf(items[i]) = InvalidDate
        THEN /\ inventory' = inventory
             /\ calls' = [calls EXCEPT ![r] = Idle]
             /\ last' = [op |-> "refreshInventory", request |-> r,
                         input |-> call.input, outcome |-> "RangeError",
                         items |-> items, deleted |-> call.deleted]
        ELSE IF Len(items) > 0 /\ storage = "down"
        THEN /\ inventory' = AfterRejectedInsert(inventory, call.deleted)
             /\ calls' = [calls EXCEPT ![r] = Idle]
             /\ last' = [op |-> "refreshInventory", request |-> r,
                         input |-> call.input, outcome |-> "StorageError",
                         items |-> items, deleted |-> call.deleted]
        ELSE /\ inventory' = InsertInventory(inventory, inventoryData)
             /\ calls' = [calls EXCEPT ![r] =
                            [at |-> "refresh.return", input |-> call.input,
                             items |-> call.items, deleted |-> call.deleted]]
             /\ last' = [op |-> "refreshInventory.insert", request |-> r,
                         input |-> call.input, inserted |-> inventoryData]
  /\ UNCHANGED <<tz, now, users, mealPlans>>

\* refreshInventory: the final select, and the return
refreshInventoryReturn(r) ==
  /\ calls[r].at = "refresh.return"
  /\ LET call == calls[r]
         updatedItems == SelectInventoryOf(inventory, call.input.user_id)
     IN last' = [op |-> "refreshInventory", request |-> r,
                 input |-> call.input, outcome |-> "ok",
                 items |-> call.items, deleted |-> call.deleted,
                 result |-> [i \in DOMAIN updatedItems |->
                               MaterializeExpiry(updatedItems[i])]]
  /\ calls' = [calls EXCEPT ![r] = Idle]
  /\ UNCHANGED <<tz, now, users, inventory, mealPlans>>

\* the refreshes of an account that have deleted and not yet inserted
RefreshesBetweenDeleteAndInsert(user_id) ==
  {r \in Requests : /\ calls[r].at = "refresh.insert"
                    /\ calls[r].input.user_id = user_id}

\* generateMealPlan's select of the account's inventory: the rows the table
\* holds at the time of the call
ReadInventoryBeforeRefresh(user_id) ==
  IF RefreshesBetweenDeleteAndInsert(user_id) # {}
  THEN calls[CHOOSE r \in RefreshesBetweenDeleteAndInsert(user_id) : TRUE].deleted
  ELSE SelectInventoryOf(inventory, user_id)
ReadInventory(user_id) == SelectInventoryOf(inventory, user_id)

\* the generateMealPlan requests that have read and not yet inserted
GeneratesInFlight == {r \in Requests : calls[r].at = "generate.insert"}

\* generateMealPlan: the user lookup and the select of the inventory
generateMealPlanRead(r, input) ==
  /\ calls[r] = Idle
  /\ Len(mealPlans) + Cardinality(GeneratesInFlight) < MaxPlans
  /\ LET found == SelectUsersById(input.user_id)
     IN IF Len(found) = 0
        THEN /\ calls' = calls
             /\ last' = [op |-> "generateMealPlan", request |-> r,
                         input |-> input, outcome |-> "NotFound"]
        ELSE LET inventoryItems == ReadInventory(input.user_id)
             IN /\ calls' = [calls EXCEPT ![r] =
                               [at |-> "generate.insert", input |-> input,
                                user |-> found[1],
                                inventoryItems |-> inventoryItems]]
                /\ last' = [op |-> "generateMealPlan.read", request |-> r,
                            input |-> input,
                            inventoryItems |-> inventoryItems]
  /\ UNCHANGED <<tz, now, users, inventory, mealPlans>>

\* generateMealPlan: the week start, the planner call, the insert, the
\* notification and the return
generateMealPlanInsert(r, apiResponse) ==
  /\ calls[r].at = "generate.insert"
  /\ LET call == calls[r]
         input == call.input
         weekStartDate ==
           getWeekStartDate(IF Has(input, "week_start_date")
                            THEN DateToInstant(input.week_start_date)
                            ELSE now)
     IN IF ~ ConformsToPlannerSchema(apiResponse)
        THEN /\ mealPlans' = mealPlans
             /\ last' = [op |-> "generateMealPlan", request |-> r,
                         input |-> input, outcome |-> "UpstreamError",
                         inventoryItems |-> call.inventoryItems]
        ELSE
          LET mealPlan ==
                [id |-> Len(mealPlans) + 1,
                 user_id |-> input.user_id,
                 week_start_date |-> ToISODate(weekStartDate),
                 plan_data |-> JSONStringify(apiResponse.meal_plan),
                 shopping_gaps |-> JSONStringify(apiResponse.shopping_gaps),
                 created_at |-> now,
                 updated_at |-> now]
              notification == IF WantsSlack(call.user)
                              THEN <<LocalSendToSlack(mealPlan.id)>>
                              ELSE << >>
          IN /\ mealPlans' = InsertMealPlan(mealPlans, mealPlan)
             /\ last' =
                  IF notification = <<"threw">>
                  THEN [op |-> "generateMealPlan", request |-> r,
                        input |-> input, outcome |-> "NotifyError",
                        notification |-> notification,
                        inventoryItems |-> call.inventoryItems]
                  ELSE [op |-> "generateMealPlan", request |-> r,
                        input |-> input, outcome |-> "ok",
                        notification |-> notification,
                        inventoryItems |-> call.inventoryItems,
                        result |->
                          [mealPlan EXCEPT !.week_start_date =
                             DateToInstant(mealPlan.week_start_date)]]
  /\ calls' = [calls EXCEPT ![r] = Idle]
  /\ UNCHANGED <<tz, now, users, inventory>>

-----------------------------------------------------------------------------
(* Clock *)

Tick ==
  /\ now < ClockStart + MaxTicks
  /\ now' = now + 1
  /\ last' = [op |-> "tick"]
  /\ UNCHANGED <<calls, tz, users, inventory, mealPlans>>

-----------------------------------------------------------------------------
\* server time zones: six hours west of UTC, UTC, six hours east
Timezones == {-1, 0, 1}

InitIn(zones) ==
  /\ tz \in zones
  /\ now = ClockStart
  /\ users = << >>
  /\ inventory = << >>
  /\ mealPlans = << >>
  /\ last = [op |-> "none"]
  /\ calls = [r \in Requests |-> Idle]

\* a server whose local time is UTC
Init == InitIn({0})

\* a server in any of the time zones
InitZones == InitIn(Timezones)

ConnectStep == \E input \in ConnectUserInputs : connectUser(input)
UpdateSettingsStep == \E input \in UpdateUserSettingsInputs : updateUserSettings(input)

\* the account manager alone, every input
NextAccounts ==
  \/ Tick
  \/ ConnectStep
  \/ UpdateSettingsStep

SpecAccounts == Init /\ [][NextAccounts]_vars

\* entries of an upstream inventory payload
Entry(name, quantity, unit, expiry_date) ==
  [name |-> name, quantity |-> quantity, unit |-> unit,
   expiry_date |-> expiry_date]

\* no expiry under two names; day 4 under two names, once as a date only
\* and once with a time of day; day 3.  Day 4 is four days after the day
\* the clock starts in and three days after the day it ticks into.
InventoryEntries ==
  {Entry("milk", 1, "l", JsonNull),
   Entry("apple", 5, "pieces", JsonNull),
   Entry("milk", 2, "l", IsoString(4 * DayUnits)),
   Entry("apple", 3, "pieces", IsoString(4 * DayUnits + 1)),
   Entry("apple", 4, "pieces", IsoString(3 * DayUnits))}

SeqsUpTo(S, n) == UNION {[1 .. k -> S] : k \in 0 .. n}

SuccessResponse(items) ==
  [kind |-> "response", ok |-> TRUE,
   body |-> [status |-> "success", items |-> items]]

\* fetch rejects; HTTP 500; a body that lacks fields; a body whose status
\* field is not "success"
FailureResponses ==
  {[kind |-> "unreachable"],
   [kind |-> "response", ok |-> FALSE],
   [kind |-> "response", ok |-> TRUE,
    body |-> [status |-> "success", items |-> <<[name |-> "apple"]>>]],
   [kind |-> "response", ok |-> TRUE,
    body |-> [status |-> "error", items |-> << >>]]}

\* payloads whose expiry_date string is empty or is no date
OddResponses ==
  {SuccessResponse(<<Entry("apple", 1, "pieces", EmptyString)>>),
   SuccessResponse(<<Entry("apple", 1, "pieces", GarbageString)>>)}

InventoryResponses ==
  {SuccessResponse(items) : items \in SeqsUpTo(InventoryEntries, MaxItems)}
    \cup OddResponses \cup FailureResponses

\* inventory sync and reader of one account, every payload
NextInventory ==
  \/ Tick
  \/ connectUser([household_id |-> "h1", inventory_endpoint |-> "https://e1"])
  \/ \E response \in InventoryResponses :
       refreshInventory([user_id |-> 1], response)
  \/ getInventory(1)

SpecInventory == Init /\ [][NextInventory]_vars

\* the entries whose expiry_date is null or a date without a time of day
DatedInventoryEntries ==
  {e \in InventoryEntries :
     e.expiry_date = JsonNull \/ e.expiry_date.instant % DayUnits = 0}

DatedInventoryResponses ==
  {SuccessResponse(items) : items \in SeqsUpTo(DatedInventoryEntries, MaxItems)}
    \cup FailureResponses

\* inventory sync and reader of one account whose upstream sends dates only
NextInventoryDated ==
  \/ Tick
  \/ connectUser([household_id |-> "h1", inventory_endpoint |-> "https://e1"])
  \/ \E response \in DatedInventoryResponses :
       refreshInventory([user_id |-> 1], response)
  \/ getInventory(1)

SpecInventoryDated == Init /\ [][NextInventoryDated]_vars

\* the inputs of the whole server: one household connects, bare or with
\* channel and auto-notify, so that the other user id stays unknown;
\* settings edits that touch nothing, clear the channel, or switch
\* auto-notify off
ServerConnectInputs ==
  [household_id : {"h1"}, inventory_endpoint : {"https://e1"}]
    \cup [household_id : {"h1"}, inventory_endpoint : {"https://e1"},
          slack_channel : {"#kitchen"}, auto_send_slack : {TRUE}]

ServerSettingsInputs ==
  [id : UserIds]
    \cup [id : UserIds, slack_channel : {NULL}]
    \cup [id : UserIds, auto_send_slack : {FALSE}]

ServerInventoryResponses ==
  {SuccessResponse(<< >>),
   SuccessResponse(<<Entry("apple", 3, "pieces", IsoString(4 * DayUnits + 1))>>),
   SuccessResponse(<<Entry("milk", 1, "l", JsonNull),
                     Entry("milk", 2, "l", IsoString(4 * DayUnits))>>),
   SuccessResponse(<<Entry("apple", 1, "pieces", GarbageString)>>)}
    \cup FailureResponses

\* 1970-01-05 is a Monday, 1970-01-11 the Sunday of the same week
WeekStartInputs == {4, 10}

GenerateInputs ==
  [user_id : UserIds] \cup [user_id : UserIds, week_start_date : WeekStartInputs]

RefreshStep ==
  \E id \in UserIds, response \in ServerInventoryResponses :
    refreshInventory([user_id |-> id], response)

GetInventoryStep == \E id \in UserIds : getInventory(id)

GenerateStep ==
  \E input \in GenerateInputs, apiResponse \in PlannerResponses :
    generateMealPlan(input, apiResponse)

Next ==
  \/ Tick
  \/ \E input \in ServerConnectInputs : connectUser(input)
  \/ \E input \in ServerSettingsInputs : updateUserSettings(input)
  \/ RefreshStep
  \/ GetInventoryStep
  \/ GenerateStep

Spec == Init /\ [][Next]_vars

\* the seven days of one week, Monday 1970-01-05 to Sunday 1970-01-11
WeekDates == 4 .. 10

WeekStartInputsAll ==
  [user_id : {1}] \cup [user_id : {1}, week_start_date : WeekDates]

\* the generator of one account on a server in any of the time zones,
\* asked for every day of a week and for the current week
NextWeekStart ==
  \/ Tick
  \/ connectUser([household_id |-> "h1", inventory_endpoint |-> "https://e1"])
  \/ \E input \in WeekStartInputsAll :
       generateMealPlan(input, MockPlannerResponse)

SpecWeekStart == InitZones /\ [][NextWeekStart]_vars

\* generator and plan lookup of one account, both for the current week,
\* on a server in any of the time zones
NextCurrentWeek ==
  \/ Tick
  \/ connectUser([household_id |-> "h1", inventory_endpoint |-> "https://e1"])
  \/ generateMealPlan([user_id |-> 1], MockPlannerResponse)
  \/ getMealPlan([user_id |-> 1])

SpecCurrentWeek == InitZones /\ [][NextCurrentWeek]_vars

\* the inputs of the plan side of the server: the first household connects
\* bare or with channel and auto-notify, a second one bare; a settings edit
\* clears or empties the channel; plans are generated for the current week (that of
\* Monday 1969-12-29) and for a Sunday, and looked up for the current week,
\* that Sunday and its Monday
PlanConnectInputs ==
  {[household_id |-> "h1", inventory_endpoint |-> "https://e1"],
   [household_id |-> "h1", inventory_endpoint |-> "https://e1",
    slack_channel |-> "#kitchen", auto_send_slack |-> TRUE],
   [household_id |-> "h2", inventory_endpoint |-> "https://e2"]}

PlanSettingsInputs == [id : {1}, slack_channel : {NULL, ""}]

PlanGenerateInputs ==
  [user_id : UserIds] \cup [user_id : UserIds, week_start_date : {10}]

GetMealPlanInputs ==
  [user_id : UserIds] \cup [user_id : UserIds, week_start_date : WeekStartInputs]

GetRecentInputs ==
  [user_id : UserIds] \cup [user_id : UserIds, limit : {1}]

GetMealPlanStep == \E input \in GetMealPlanInputs : getMealPlan(input)

GetRecentStep == \E input \in GetRecentInputs : getRecentMealPlans(input)

SendInputs == [meal_plan_id : 1 .. 2]

SendStep ==
  \E input \in SendInputs, storage \in Storage : sendToSlack(input, storage)

\* generator, plan readers and notifier of two accounts, within one clock
\* reading
NextPlans ==
  \/ \E input \in PlanConnectInputs : connectUser(input)
  \/ \E input \in PlanSettingsInputs : updateUserSettings(input)
  \/ \E input \in PlanGenerateInputs :
       generateMealPlan(input, MockPlannerResponse)
  \/ GetMealPlanStep
  \/ GetRecentStep
  \/ SendStep

SpecPlans == Init /\ [][NextPlans]_vars

\* a parsable document that is no weekly plan
WrongShapeDocument == [note |-> "not a plan"]

\* texts a plan row may hold: the generator's, or those of another writer
\* of the store
StoredPlanTexts ==
  {JSONStringify(MockPlannerResponse.meal_plan), InvalidJsonText,
   JSONStringify(WrongShapeDocument)}

StoredGapTexts ==
  {JSONStringify(MockPlannerResponse.shopping_gaps), InvalidJsonText}

\* a store with one account and at most one plan row, whose texts are of
\* any of the kinds above
InitNotifier ==
  /\ tz = 0
  /\ now = ClockStart
  /\ users = <<[id |-> 1, household_id |-> "h1",
                inventory_endpoint |-> "https://e1",
                slack_channel |-> "#kitchen", auto_send_slack |-> FALSE,
                created_at |-> ClockStart, updated_at |-> ClockStart]>>
  /\ inventory = << >>
  /\ mealPlans \in
       {<< >>} \cup
       {<<[id |-> 1, user_id |-> 1, week_start_date |-> -3,
           plan_data |-> plan_data, shopping_gaps |-> shopping_gaps,
           created_at |-> ClockStart, updated_at |-> ClockStart]>> :
          plan_data \in StoredPlanTexts, shopping_gaps \in StoredGapTexts}
  /\ last = [op |-> "none"]
  /\ calls = [r \in Requests |-> Idle]

NotifierSettingsInputs ==
  [id : {1}, slack_channel : {NULL, "", "#kitchen"}]
    \cup [id : {1}, auto_send_slack : {TRUE}]

\* the notifier over such a store, while the account's channel is edited
NextNotifier ==
  \/ \E input \in NotifierSettingsInputs : updateUserSettings(input)
  \/ SendStep

SpecNotifier == InitNotifier /\ [][NextNotifier]_vars

\* the inputs of a server with two accounts: both households connect bare,
\* a settings edit gives a channel, each account's upstream answers with
\* one of two one-item payloads or with HTTP 500, plans are generated and
\* looked up for the current week
OwnerConnectInputs ==
  [household_id : Households, inventory_endpoint : {"https://e1"}]

OwnerSettingsInputs == [id : UserIds, slack_channel : {"#kitchen"}]

OwnerInventoryResponses ==
  {SuccessResponse(<<Entry("milk", 1, "l", JsonNull)>>),
   SuccessResponse(<<Entry("apple", 3, "pieces", IsoString(4 * DayUnits))>>),
   [kind |-> "response", ok |-> FALSE]}

\* every operation of the server, on two accounts, within one clock reading
NextOwners ==
  \/ \E input \in OwnerConnectInputs : connectUser(input)
  \/ \E input \in OwnerSettingsInputs : updateUserSettings(input)
  \/ \E id \in UserIds, response \in OwnerInventoryResponses :
       refreshInventory([user_id |-> id], response)
  \/ GetInventoryStep
  \/ \E id \in UserIds :
       generateMealPlan([user_id |-> id], MockPlannerResponse)
  \/ \E id \in UserIds : getMealPlan([user_id |-> id])
  \/ \E id \in UserIds : getRecentMealPlans([user_id |-> id])
  \/ sendToSlack([meal_plan_id |-> 1], "up")

SpecOwners == Init /\ [][NextOwners]_vars

\* the inputs of the requests taken storage call by storage call
StepConnectInputs ==
  {[household_id |-> "h1", inventory_endpoint |-> "https://e1"]}
StepRefreshIds == {1}
StepInventoryResponses == OwnerInventoryResponses

ConnectLookupStep(R) ==
  \E r \in R, input \in StepConnectInputs : connectUserLookup(r, input)
ConnectWriteStep(R) == \E r \in R : connectUserWrite(r)
RefreshFetchStep(R) ==
  \E r \in R, id \in StepRefreshIds, response \in StepInventoryResponses :
    refreshInventoryFetch(r, [user_id |-> id], response)
RefreshDeleteStep(R) == \E r \in R : refreshInventoryDelete(r)
RefreshInsertStep(R) ==
  \E r \in R, storage \in Storage : refreshInventoryInsert(r, storage)
RefreshReturnStep(R) == \E r \in R : refreshInventoryReturn(r)
GenerateReadStep(R) ==
  \E r \in R : generateMealPlanRead(r, [user_id |-> 1])
GenerateInsertStep(R) ==
  \E r \in R : generateMealPlanInsert(r, MockPlannerResponse)

\* one request at a time, each taken storage call by storage call
NextSteps ==
  \/ ConnectLookupStep({"r1"})
  \/ ConnectWriteStep({"r1"})
  \/ RefreshFetchStep({"r1"})
  \/ RefreshDeleteStep({"r1"})
  \/ RefreshInsertStep({"r1"})
  \/ RefreshReturnStep({"r1"})
  \/ GenerateReadStep({"r1"})
  \/ GenerateInsertStep({"r1"})
  \/ getInventory(1)

SpecSteps == Init /\ [][NextSteps]_vars

\* two requests in flight, their storage calls interleaved in any order
NextConcurrent ==
  \/ ConnectLookupStep(Requests)
  \/ ConnectWriteStep(Requests)
  \/ RefreshFetchStep(Requests)
  \/ RefreshDeleteStep(Requests)
  \/ RefreshInsertStep(Requests)
  \/ RefreshReturnStep(Requests)
  \/ GenerateReadStep(Requests)
  \/ GenerateInsertStep(Requests)
  \/ getInventory(1)
  \/ updateUserSettings([id |-> 1, slack_channel |-> "#kitchen"])

SpecConcurrent == Init /\ [][NextConcurrent]_vars



-----------------------------------------------------------------------------
(* Properties of the account manager *)

\* the rows of a table, as a set
Rows(table) == {table[i] : i \in DOMAIN table}

\* the row of a users table with the given id
UserWithId(table, id) == CHOOSE u \in Rows(table) : u.id = id

\* a step that is a successful connectUser for a household that had a row
ConnectExistingStep ==
  /\ last'.op = "connectUser"
  /\ last'.outcome = "ok"
  /\ \E u \in Rows(users) : u.household_id = last'.input.household_id

\* a step that is a successful updateUserSettings
UpdateOkStep ==
  /\ last'.op = "updateUserSettings"
  /\ last'.outcome = "ok"

\* C1: connecting a household that already has an account returns that
\* account (same id), and afterwards its endpoint is the supplied endpoint,
\* its channel is the supplied channel (null when none was supplied) and its
\* auto-notify flag is the supplied flag (false when none was supplied).
C1_ConnectOverwritesWithSupplied ==
  [][ConnectExistingStep =>
       LET input == last'.input
           before == CHOOSE u \in Rows(users) :
                       u.household_id = input.household_id
           after == UserWithId(users', before.id)
       IN /\ last'.result.id = before.id
          /\ last'.result = after
          /\ after.inventory_endpoint = input.inventory_endpoint
          /\ after.slack_channel =
               (IF Has(input, "slack_channel") THEN input.slack_channel ELSE NULL)
          /\ after.auto_send_slack =
               (IF Has(input, "auto_send_slack") THEN input.auto_send_slack ELSE FALSE)
     ]_vars

AtMostOneUserPerHousehold ==
  \A h \in Households :
    Cardinality({i \in DOMAIN users : users[i].household_id = h}) <= 1

\* C2: after any sequence of sequential connectUser and updateUserSettings
\* calls from the empty store there is at most one account per household
\* id, and connectUser for a household id without an account adds exactly
\* one account, which carries that household id.
C2_OneAccountPerHousehold ==
  /\ []AtMostOneUserPerHousehold
  /\ [][(/\ last'.op = "connectUser"
         /\ ~ \E u \in Rows(users) : u.household_id = last'.input.household_id)
        => /\ Len(users') = Len(users) + 1
           /\ SubSeq(users', 1, Len(users)) = users
           /\ users'[Len(users')].household_id = last'.input.household_id
       ]_vars

\* C2 witness: both households have an account and the first one has just
\* been connected again.
C2_Witness ==
  /\ Len(users) = 2
  /\ last.op = "connectUser"
  /\ last.result.id = 1

\* C3 as stated: a successful connectUser on an existing household id and a
\* successful updateUserSettings leave created_at unchanged and make
\* updated_at strictly greater than before.
C3_UpdatedAtStrictlyIncreases ==
  [][(ConnectExistingStep \/ UpdateOkStep) =>
       LET id == last'.result.id
       IN /\ UserWithId(users', id).created_at = UserWithId(users, id).created_at
          /\ UserWithId(users', id).updated_at > UserWithId(users, id).updated_at
     ]_vars

\* C3 amended: such a call leaves created_at unchanged and sets updated_at
\* to the clock reading of the call, which is never less than the value it
\* replaces and is greater exactly when the clock has advanced since that
\* value was written.
C3_UpdatedAtSetToNow ==
  [][(ConnectExistingStep \/ UpdateOkStep) =>
       LET id == last'.result.id
           before == UserWithId(users, id)
           after == UserWithId(users', id)
       IN /\ after.created_at = before.created_at
          /\ after.updated_at = now
          /\ after.updated_at >= before.updated_at
          /\ (after.updated_at > before.updated_at) <=> (now > before.updated_at)
          /\ last'.result.updated_at = after.updated_at
     ]_vars

\* C3 witness: updateUserSettings without any optional field succeeded on
\* an account created at an earlier clock reading.
C3_Witness ==
  /\ last.op = "updateUserSettings"
  /\ last.outcome = "ok"
  /\ DOMAIN last.input = {"id"}
  /\ last.result.updated_at > last.result.created_at

\* C4: updateUserSettings on an existing account is a partial update: an
\* omitted field keeps its value, a channel supplied as null becomes null, a
\* supplied value replaces the old one; id, household id and endpoint do not
\* change, and no account is created or removed.
C4_PartialUpdate ==
  [][UpdateOkStep =>
       LET input == last'.input
           before == UserWithId(users, input.id)
           after == UserWithId(users', input.id)
       IN /\ after.slack_channel =
               (IF Has(input, "slack_channel") THEN input.slack_channel
                                               ELSE before.slack_channel)
          /\ after.auto_send_slack =
               (IF Has(input, "auto_send_slack") THEN input.auto_send_slack
                                                 ELSE before.auto_send_slack)
          /\ after.id = before.id
          /\ after.household_id = before.household_id
          /\ after.inventory_endpoint = before.inventory_endpoint
          /\ Len(users') = Len(users)
          /\ \A i \in DOMAIN users : users[i].id # input.id => users'[i] = users[i]
          /\ last'.result = after
     ]_vars

\* C4 witness: a channel was cleared with an explicit null while the
\* omitted auto-notify flag kept its value TRUE.
C4_Witness ==
  /\ last.op = "updateUserSettings"
  /\ last.outcome = "ok"
  /\ DOMAIN last.input = {"id", "slack_channel"}
  /\ last.input.slack_channel = NULL
  /\ last.result.slack_channel = NULL
  /\ last.result.auto_send_slack = TRUE
-----------------------------------------------------------------------------
(* Properties of inventory sync, the inventory reader and the generator *)

\* the rows of an inventory table that belong to a user, in table order
ItemsOf(table, user_id) == SelectSeq(table, LAMBDA r : r.user_id = user_id)

\* the user id a call names
NamedUser(call) ==
  IF call.op = "updateUserSettings" THEN call.input.id ELSE call.input.user_id

\* C5: updateUserSettings, refreshInventory and generateMealPlan called with
\* an account id that does not exist fail with NotFound before any write:
\* accounts, inventory items and meal plans are as before the call, and
\* refreshInventory sends no request to an inventory endpoint.
C5_NotFoundWritesNothing ==
  [][(/\ last'.op \in {"updateUserSettings", "refreshInventory", "generateMealPlan"}
      /\ ~ \E u \in Rows(users) : u.id = NamedUser(last'))
     => /\ last'.outcome = "NotFound"
        /\ users' = users
        /\ inventory' = inventory
        /\ mealPlans' = mealPlans
        /\ (last'.op = "refreshInventory" => last'.fetched = << >>)
    ]_vars

\* C5 witness: a refresh for an unknown account failed with NotFound while
\* the store held an account, inventory items and a meal plan.
C5_Witness ==
  /\ last.op = "refreshInventory"
  /\ last.outcome = "NotFound"
  /\ Len(users) > 0
  /\ Len(inventory) > 0
  /\ Len(mealPlans) > 0

\* the upstream answer is no success status, does not have the expected
\* shape, or carries a status field other than "success"
RejectedInventoryResponse(r) ==
  \/ r.kind = "unreachable"
  \/ ~ r.ok
  \/ ~ {"items", "status"} \subseteq DOMAIN r.body
  \/ \E i \in DOMAIN r.body.items :
       ~ {"name", "quantity", "unit", "expiry_date"} \subseteq DOMAIN r.body.items[i]
  \/ r.body.status # "success"

\* the planner answer does not have the expected shape
RejectedPlannerResponse(r) ==
  ~ {"meal_plan", "shopping_gaps", "status"} \subseteq DOMAIN r

\* C6: a refresh that completes replaces the account's item set: afterwards
\* the account's stored items are exactly the entries of the upstream
\* payload, one row per entry and nothing else, and the returned list is
\* that stored set.
C6_RefreshReplacesItems ==
  [][(last'.op = "refreshInventory" /\ last'.outcome = "ok") =>
       LET id == last'.input.user_id
           items == last'.response.body.items
           stored == ItemsOf(inventory', id)
           result == last'.result
       IN /\ Len(stored) = Len(items)
          /\ \A i \in DOMAIN items :
               /\ stored[i].name = items[i].name
               /\ stored[i].quantity = items[i].quantity
               /\ stored[i].unit = items[i].unit
               /\ stored[i].expiry_date =
                    (IF items[i].expiry_date \in {JsonNull, EmptyString}
                     THEN NULLDATE
                     ELSE items[i].expiry_date.instant \div DayUnits)
               /\ stored[i].created_at = now
          /\ Len(result) = Len(stored)
          /\ \A i \in DOMAIN stored :
               result[i] =
                 [stored[i] EXCEPT !.expiry_date =
                    IF stored[i].expiry_date = NULLDATE THEN NULLDATE
                    ELSE stored[i].expiry_date * DayUnits]
     ]_vars

\* C6 witness: a refresh deleted the items of an earlier refresh and stored
\* its own two entries.
C6_Witness ==
  /\ last.op = "refreshInventory"
  /\ last.outcome = "ok"
  /\ last.deleted > 0
  /\ Len(last.result) = 2
  /\ Len(inventory) = 2

\* C7: a failure caused by the external response writes nothing: a refresh
\* that meets a non-success HTTP status, a payload of the wrong shape or a
\* payload status other than "success" fails with UpstreamError and leaves
\* the inventory as it was; a generate that receives a malformed planner
\* response fails with UpstreamError and inserts no meal plan.
C7_UpstreamErrorWritesNothing ==
  [][(/\ last'.op \in {"refreshInventory", "generateMealPlan"}
      /\ last'.outcome # "NotFound"
      /\ IF last'.op = "refreshInventory"
         THEN RejectedInventoryResponse(last'.response)
         ELSE RejectedPlannerResponse(last'.response))
     => /\ last'.outcome = "UpstreamError"
        /\ inventory' = inventory
        /\ mealPlans' = mealPlans
        /\ users' = users
    ]_vars

\* C7 witness: a refresh met a payload status other than "success" while
\* the account had stored items.
C7_Witness ==
  /\ last.op = "refreshInventory"
  /\ last.outcome = "UpstreamError"
  /\ last.cause = "status_field"
  /\ Len(ItemsOf(inventory, last.input.user_id)) > 0

\* C8: for every item returned by refreshInventory or getInventory, the
\* expiring-soon flag equals (expiry date present and expiry date <= t + 3
\* days), t being the instant at which the operation runs.
C8_ReturnedFlagIsWindowTest ==
  (last.op \in {"refreshInventory", "getInventory"} /\ last.outcome = "ok") =>
    \A i \in DOMAIN last.result :
      last.result[i].is_expiring_soon =
        (/\ last.result[i].expiry_date # NULLDATE
         /\ last.result[i].expiry_date <= now + 3 * DayUnits)

\* C9 as stated: in every reachable state each stored item's flag is true
\* iff its expiry date is present and on or before now + 3 days.
C9_StoredFlagIsCurrent ==
  \A i \in DOMAIN inventory :
    inventory[i].is_expiring_soon =
      (/\ inventory[i].expiry_date # NULLDATE
       /\ inventory[i].expiry_date * DayUnits <= now + 3 * DayUnits)

\* C9 amended: in every reachable state a stored item's flag is true only
\* if its expiry date is present and on or before now + 3 days; the flag is
\* fixed when the item is stored, so an item whose expiry date comes within
\* the window later keeps the flag false.
C9_StoredFlagImpliesWindow ==
  \A i \in DOMAIN inventory :
    inventory[i].is_expiring_soon =>
      (/\ inventory[i].expiry_date # NULLDATE
       /\ inventory[i].expiry_date * DayUnits <= now + 3 * DayUnits)

\* C9 witness: an item stored with the flag set, seen after the clock has
\* advanced past the refresh that stored it.
C9_Witness ==
  \E i \in DOMAIN inventory :
    /\ inventory[i].is_expiring_soon
    /\ now > inventory[i].created_at

\* C10: getInventory returns the account's items with every dated item
\* before every undated one, dated items in ascending date order, and items
\* that tie on the date (undated ones among themselves too) in ascending
\* name order.
C10_ListIsOrdered ==
  (last.op = "getInventory") =>
    LET result == last.result
        stored == ItemsOf(inventory, last.input.user_id)
    IN /\ Len(result) = Len(stored)
       /\ \A r \in Rows(stored) :
            Cardinality({i \in DOMAIN result :
                           /\ result[i].name = r.name
                           /\ result[i].quantity = r.quantity}) =
            Cardinality({i \in DOMAIN stored :
                           /\ stored[i].name = r.name
                           /\ stored[i].quantity = r.quantity})
       /\ \A i, j \in DOMAIN result :
            i < j =>
              /\ result[i].expiry_date = NULLDATE => result[j].expiry_date = NULLDATE
              /\ (result[i].expiry_date # NULLDATE /\ result[j].expiry_date # NULLDATE)
                   => result[i].expiry_date <= result[j].expiry_date
              /\ result[i].expiry_date = result[j].expiry_date
                   => NameRank[result[i].name] <= NameRank[result[j].name]

\* C10 witness: the list puts a dated item before an undated one that is
\* stored ahead of it.
C10_Witness ==
  /\ last.op = "getInventory"
  /\ Len(last.result) = 2
  /\ last.result[1].expiry_date # NULLDATE
  /\ last.result[2].expiry_date = NULLDATE
  /\ inventory[1].expiry_date = NULLDATE

-----------------------------------------------------------------------------
(* Properties of the week start *)

\* Sunday = 0 ... Saturday = 6 of a calendar date; 1970-01-01 was a Thursday
WeekdayIndex(d) == (d + 4) % 7

\* d minus ((weekday_index(d) + 6) mod 7) days
MondayOfWeek(d) == d - ((WeekdayIndex(d) + 6) % 7)

\* the last operation was a generateMealPlan that returned a plan
GenerateOk == last.op = "generateMealPlan" /\ last.outcome = "ok"

\* the calendar dates the last generateMealPlan may have been asked for:
\* the supplied one, or else the current date, in UTC or on the server
RequestedDates ==
  IF Has(last.input, "week_start_date")
  THEN {last.input.week_start_date}
  ELSE {ToISODate(now), LocalDay(now)}

\* C11: the week start computed for a date d (supplied, or the current date)
\* is d minus ((weekday_index(d) + 6) mod 7) days: the Monday of d's week,
\* never after d, at most 6 days before d, and d itself when d is a Monday.
C11_WeekStartIsMondayOfSameWeek ==
  GenerateOk =>
    LET w == ToISODate(last.result.week_start_date)
    IN \E d \in RequestedDates :
         /\ w = MondayOfWeek(d)
         /\ w <= d
         /\ d - w <= 6
         /\ (WeekdayIndex(d) = 1 => w = d)

\* C12: week_start is idempotent: the week start of a computed week start
\* is that week start.
C12_WeekStartIdempotent ==
  (GenerateOk /\ Has(last.input, "week_start_date")) =>
    LET w == WeekStartDateOf(last.input.week_start_date)
    IN WeekStartDateOf(w) = w

\* C13: every plan the generator created has, as stored and as returned, a
\* week-start date that is a Monday and is the Monday of the requested
\* (or current) date's week.
C13_PlansStartOnMonday ==
  /\ \A p \in Rows(mealPlans) : WeekdayIndex(p.week_start_date) = 1
  /\ GenerateOk =>
       LET stored == CHOOSE p \in Rows(mealPlans) : p.id = last.result.id
       IN /\ last.result.week_start_date = DateToInstant(stored.week_start_date)
          /\ \E d \in RequestedDates :
               stored.week_start_date = MondayOfWeek(d)

-----------------------------------------------------------------------------
(* Properties of the generator's notification *)

\* the ids of the rows of a table
Ids(table) == {table[i].id : i \in DOMAIN table}

\* the account has a channel configured
ChannelConfigured(user) == user.slack_channel # NULL /\ user.slack_channel # ""

\* C14: generateMealPlan invokes the notifier for the new plan if and only
\* if the account's auto-notify flag is set and a channel is configured, and
\* every plan the notifier is invoked for is in the store.
C14_NotifiesIffWantedAfterPersist ==
  (last.op = "generateMealPlan") =>
    /\ \A i \in DOMAIN last.notified : last.notified[i] \in Ids(mealPlans)
    /\ last.outcome = "ok" =>
         LET user == UserWithId(users, last.input.user_id)
         IN IF user.auto_send_slack /\ ChannelConfigured(user)
            THEN last.notified = <<last.result.id>>
            ELSE last.notified = << >>
    /\ last.outcome \in {"NotFound", "UpstreamError"} => last.notified = << >>

C14_Witness ==
  /\ GenerateOk
  /\ last.notified = <<last.result.id>>
  /\ \E p \in Rows(mealPlans) : p.id = last.result.id

\* C15: whenever the plan insert of a generateMealPlan succeeded, the call
\* returns the created plan and the plan is stored, whatever became of the
\* automatic notification.
C15_NotificationNeverFailsGenerate ==
  [][(last'.op = "generateMealPlan" /\ Len(mealPlans') > Len(mealPlans)) =>
       /\ last'.outcome = "ok"
       /\ \E p \in Rows(mealPlans') :
            /\ p.id = last'.result.id
            /\ p.id \notin Ids(mealPlans)
            /\ last'.result = [p EXCEPT !.week_start_date =
                                          DateToInstant(p.week_start_date)]]_vars

C15_Witness ==
  /\ GenerateOk
  /\ last.notification # << >>
  /\ last.result.id \in Ids(mealPlans)
  /\ Len(mealPlans) = 2

-----------------------------------------------------------------------------
(* Properties of the messaging notifier *)

\* C16: sendToSlack never throws: for every input and store state, also
\* when the store fails, it returns a value {success, message, channel?}.
C16_SendNeverThrows ==
  (last.op = "sendToSlack") =>
    /\ last.outcome = "returned"
    /\ {"success", "message"} \subseteq DOMAIN last.result
    /\ DOMAIN last.result \subseteq {"success", "message", "channel"}
    /\ last.result.success \in BOOLEAN

C16_Witness ==
  /\ last.op = "sendToSlack"
  /\ last.storage = "down"
  /\ last.outcome = "returned"
  /\ last.result.success = FALSE

\* the result C17 prescribes for a plan id, decided by the first applicable
\* case
PrescribedSendResult(meal_plan_id) ==
  LET plans == {p \in Rows(mealPlans) : p.id = meal_plan_id}
  IN IF plans = {}
     THEN [success |-> FALSE, message |-> "Meal plan not found"]
     ELSE
       LET plan == CHOOSE p \in plans : TRUE
           user == UserWithId(users, plan.user_id)
       IN IF ~ ChannelConfigured(user)
          THEN [success |-> FALSE,
                message |-> "User does not have a Slack channel configured"]
          ELSE IF plan.plan_data.text # "json" \/ plan.shopping_gaps.text # "json"
          THEN [success |-> FALSE, message |-> "Invalid meal plan data format"]
          ELSE [success |-> TRUE,
                message |-> "Meal plan sent to Slack successfully",
                channel |-> user.slack_channel]

\* C17: while the store answers, the result of sendToSlack is decided by the
\* first applicable case: no such plan; no channel configured; unparsable
\* plan body or shopping-gap text; otherwise success with the channel.
\* Failure results carry no channel.
C17_SendResultByFirstCase ==
  (last.op = "sendToSlack" /\ last.storage = "up") =>
    last.result = PrescribedSendResult(last.input.meal_plan_id)

-----------------------------------------------------------------------------
(* Properties of the plan readers *)

\* C18: getMealPlan with a supplied date d returns a plan iff the account
\* has a stored plan whose week-start date is exactly d, and that plan is
\* such a one; d is not moved to the Monday of its week.
C18_ExplicitDateMatchedVerbatim ==
  (last.op = "getMealPlan" /\ Has(last.input, "week_start_date")) =>
    LET d == last.input.week_start_date
        matches == {p \in Rows(mealPlans) :
                      p.user_id = last.input.user_id /\ p.week_start_date = d}
    IN IF matches = {}
       THEN last.result = << >>
       ELSE /\ Len(last.result) = 1
            /\ \E p \in matches :
                 /\ last.result[1].id = p.id
                 /\ last.result[1].user_id = p.user_id
                 /\ last.result[1].week_start_date = DateToInstant(d)

\* a Sunday is asked for, the account has a plan for that week, none found
C18_Witness ==
  /\ last.op = "getMealPlan"
  /\ Has(last.input, "week_start_date")
  /\ WeekdayIndex(last.input.week_start_date) = 0
  /\ last.result = << >>
  /\ \E p \in Rows(mealPlans) :
       /\ p.user_id = last.input.user_id
       /\ p.week_start_date = MondayOfWeek(last.input.week_start_date)

\* C19: getRecentMealPlans returns min(limit, n) plans of the account (limit
\* 10 when omitted), those with the greatest week-start dates, in descending
\* week-start order.
C19_RecentPlansTopByWeek ==
  (last.op = "getRecentMealPlans") =>
    LET mine == {p \in Rows(mealPlans) : p.user_id = last.input.user_id}
        n == Cardinality(mine)
        limit == IF Has(last.input, "limit") THEN last.input.limit ELSE 10
        result == last.result
        returned == {result[i].id : i \in DOMAIN result}
    IN /\ Len(result) = IF limit < n THEN limit ELSE n
       /\ Cardinality(returned) = Len(result)
       /\ returned \subseteq {p.id : p \in mine}
       /\ \A i \in DOMAIN result :
            \E p \in mine : /\ p.id = result[i].id
                            /\ result[i].week_start_date =
                                 DateToInstant(p.week_start_date)
       /\ \A i, j \in DOMAIN result :
            i < j => result[i].week_start_date >= result[j].week_start_date
       /\ \A p \in mine :
            p.id \notin returned =>
              \A i \in DOMAIN result :
                DateToInstant(p.week_start_date) <= result[i].week_start_date

\* the limit cuts: one of two plans of different weeks is returned, while
\* the other account has a plan too
C19_Witness ==
  /\ last.op = "getRecentMealPlans"
  /\ Has(last.input, "limit")
  /\ Len(last.result) = 1
  /\ \E p, q \in Rows(mealPlans) :
       /\ p.user_id = last.input.user_id
       /\ q.user_id = last.input.user_id
       /\ p.week_start_date < q.week_start_date
       /\ last.result[1].id = q.id

\* C20: a successful generateMealPlan appends exactly one row with a fresh
\* id and leaves the stored rows as they were, also when the account has a
\* plan for the same week; no other step changes the stored plans.
C20_PlansOnlyAppended ==
  [][IF last'.op = "generateMealPlan" /\ last'.outcome = "ok"
     THEN /\ Len(mealPlans') = Len(mealPlans) + 1
          /\ SubSeq(mealPlans', 1, Len(mealPlans)) = mealPlans
          /\ mealPlans'[Len(mealPlans')].id \notin Ids(mealPlans)
          /\ mealPlans'[Len(mealPlans')].id = last'.result.id
     ELSE mealPlans' = mealPlans]_vars

\* two stored plans of one account for the same week
C20_Witness ==
  /\ GenerateOk
  /\ \E i, j \in DOMAIN mealPlans :
       /\ i < j
       /\ mealPlans[i].user_id = mealPlans[j].user_id
       /\ mealPlans[i].week_start_date = mealPlans[j].week_start_date
       /\ mealPlans[i].id # mealPlans[j].id
       /\ mealPlans[j].id = last.result.id

-----------------------------------------------------------------------------
(* Properties of ownership *)

\* C21: getInventory, getMealPlan and getRecentMealPlans return only rows
\* of the account asked for, whatever rows of other accounts are stored;
\* getMealPlan returns nothing when only another account has a plan for
\* the week.
C21_ReadersReturnOwnRows ==
  (last.op \in {"getInventory", "getMealPlan", "getRecentMealPlans"}) =>
    /\ \A i \in DOMAIN last.result :
         last.result[i].user_id = last.input.user_id
    /\ (last.op = "getMealPlan" /\
        ~ \E p \in Rows(mealPlans) : p.user_id = last.input.user_id)
         => last.result = << >>

\* the other account has a plan for the current week and items, the
\* account asked has none, and nothing is returned
C21_Witness ==
  /\ last.op = "getMealPlan"
  /\ last.result = << >>
  /\ \E p \in Rows(mealPlans) :
       /\ p.user_id # last.input.user_id
       /\ p.week_start_date = CurrentWeekMonday
  /\ \E u \in Rows(users) : u.id = last.input.user_id
  /\ \E r \in Rows(inventory) : r.user_id # last.input.user_id

\* C28: the stored inventory items of an account change only in a step
\* that is a refreshInventory of that account.
C28_InventoryChangesOnlyByOwnRefresh ==
  [][\A a \in UserIds :
       ItemsOf(inventory', a) # ItemsOf(inventory, a) =>
         /\ last'.op = "refreshInventory"
         /\ last'.input.user_id = a]_vars

\* the other account was refreshed while this one keeps its items
C28_Witness ==
  /\ last.op = "refreshInventory"
  /\ last.outcome = "ok"
  /\ Len(last.result) > 0
  /\ \E a \in UserIds :
       /\ a # last.input.user_id
       /\ ItemsOf(inventory, a) # << >>
  /\ mealPlans # << >>

-----------------------------------------------------------------------------
(* Properties of stored plans and their lookup *)

\* the text is that of a weekly plan: JSON with the week and the daily meals
IsWeeklyPlanText(text) ==
  /\ text.text = "json"
  /\ {"week_start_date", "daily_meals"} \subseteq DOMAIN text.value

\* C25: when a stored text of an existing plan cannot be turned back into
\* its structure (also when it is valid JSON of another structure) and the
\* account has a channel, sendToSlack returns
\* {success: false, message: "Invalid meal plan data format"}.
C25_UnstructuredTextIsInvalidFormat ==
  (last.op = "sendToSlack" /\ last.storage = "up") =>
    \A p \in Rows(mealPlans) :
      (/\ p.id = last.input.meal_plan_id
       /\ ChannelConfigured(UserWithId(users, p.user_id))
       /\ (~ IsWeeklyPlanText(p.plan_data) \/ p.shopping_gaps.text # "json"))
        => last.result = [success |-> FALSE,
                          message |-> "Invalid meal plan data format"]

\* C26: a getMealPlan without a date finds the plan that a generateMealPlan
\* without a date stored at the same instant: both use the same week.
C26_DefaultWeeksAgree ==
  (last.op = "getMealPlan" /\ ~ Has(last.input, "week_start_date")) =>
    \A p \in Rows(mealPlans) :
      (p.user_id = last.input.user_id /\ p.created_at = now) =>
        /\ last.result # << >>
        /\ last.result[1].week_start_date = DateToInstant(p.week_start_date)

\* C27: after two generateMealPlan calls of an account for the same week,
\* getMealPlan for that account and week returns the plan of the later one.
C27_LookupReturnsLatestPlan ==
  (last.op = "getMealPlan" /\ last.result # << >>) =>
    \A p \in Rows(mealPlans) :
      (/\ p.user_id = last.result[1].user_id
       /\ DateToInstant(p.week_start_date) = last.result[1].week_start_date)
        => p.id <= last.result[1].id

-----------------------------------------------------------------------------
(* Properties of overlapping requests *)

\* the accounts of a household
AccountsOf(household_id) ==
  {i \in DOMAIN users : users[i].household_id = household_id}

\* C22: Connect's lookup and its write are separate storage calls with
\* nothing holding the table between them: a Connect whose lookup found no
\* account for the household inserts a new account when it comes to write,
\* also when another Connect has inserted one for that household in the
\* meantime, so a household with two accounts is reachable.
C22_WriteFollowsItsOwnLookup ==
  [][(last'.op = "connectUser" /\ last'.looked = << >>)
       => /\ Len(users') = Len(users) + 1
          /\ SubSeq(users', 1, Len(users)) = users
          /\ users'[Len(users')].household_id = last'.input.household_id
          /\ users'[Len(users')] = last'.result]_vars

\* reached: a Connect has just inserted a second account for a household
\* that already had one
C22_Witness ==
  /\ last.op = "connectUser"
  /\ last.looked = << >>
  /\ Cardinality(AccountsOf(last.input.household_id)) = 2
  /\ last.result.id = 2

\* C23: two Refreshes of one account are not serialised.  Each deletes the
\* account's rows as they are at its delete and later appends its own rows
\* to the table as it is at its insert, so when both deletes come before
\* both inserts the account ends with the rows of both payloads, an
\* inventory that is neither payload alone.
C23_RefreshStepsActOnTheTableOfTheirMoment ==
  [][/\ last'.op = "refreshInventory.delete"
        => /\ inventory' = SelectSeq(inventory,
                              LAMBDA t : t.user_id # last'.input.user_id)
           /\ last'.deleted = ItemsOf(inventory, last'.input.user_id)
     /\ last'.op = "refreshInventory.insert"
        => /\ inventory' = inventory \o last'.inserted
           /\ \A i \in DOMAIN last'.inserted :
                last'.inserted[i].user_id = last'.input.user_id]_vars

\* reached: both Refreshes have returned and the account holds more rows
\* than the payload of the one that returned last
C23_Witness ==
  /\ last.op = "refreshInventory"
  /\ last.outcome = "ok"
  /\ \A r \in Requests : calls[r] = Idle
  /\ Len(last.items) = 1
  /\ Len(ItemsOf(inventory, last.input.user_id)) = 2
  /\ Len(last.result) = 2
  /\ \E i, j \in DOMAIN inventory :
       inventory[i].name # inventory[j].name

\* C24: when the insert of a Refresh is rejected after its delete, the
\* Refresh fails with that error and returns no inventory, and the account
\* is left with no items at all: the deleted rows are not put back and
\* none of the new ones is stored.
C24_FailedInsertLeavesInventoryEmpty ==
  [][(last'.op = "refreshInventory" /\ last'.outcome = "StorageError")
       => /\ "result" \notin DOMAIN last'
          /\ calls'[last'.request] = Idle
          /\ ItemsOf(inventory', last'.input.user_id) = << >>
          /\ inventory' = inventory]_vars

\* reached: a Refresh with a payload of items failed at its insert after
\* deleting the rows the account had
C24_Witness ==
  /\ last.op = "refreshInventory"
  /\ last.outcome = "StorageError"
  /\ last.deleted # << >>
  /\ last.items # << >>
  /\ ItemsOf(inventory, last.input.user_id) = << >>

\* every stored inventory item and every stored meal plan names an account
\* that is in the store
ReferencesExist ==
  /\ \A i \in DOMAIN inventory : inventory[i].user_id \in Ids(users)
  /\ \A i \in DOMAIN mealPlans : mealPlans[i].user_id \in Ids(users)

\* C29: in every state the operations can reach, in whatever order their
\* storage calls interleave, every inventory item and every meal plan
\* references an account that exists, and no step removes an account or
\* changes its id.
C29_ReferentialIntegrity ==
  /\ []ReferencesExist
  /\ [][/\ Len(users') >= Len(users)
         /\ \A i \in DOMAIN users : users'[i].id = users[i].id]_vars

\* reached: items and a plan are stored for an account, with requests
\* still in flight
C29_Witness ==
  /\ inventory # << >>
  /\ mealPlans # << >>
  /\ Len(users) = 2
  /\ \E r \in Requests : calls[r] # Idle

\* C30: the delete of a Refresh leaves the account without items until the
\* insert, with nothing keeping other requests away; a ListInventory or a
\* Generate in between reads the table as it is then, so it observes no
\* items, and the Generate goes on to store a plan made from that empty
\* reading.
C30_ReadsSeeTheTableBetweenDeleteAndInsert ==
  [][/\ last'.op = "refreshInventory.delete"
        => /\ ItemsOf(inventory', last'.input.user_id) = << >>
           /\ calls'[last'.request].at = "refresh.insert"
     /\ last'.op = "generateMealPlan.read"
        => /\ last'.inventoryItems = ItemsOf(inventory, last'.input.user_id)
           /\ calls'[last'.request].inventoryItems = last'.inventoryItems
     /\ last'.op = "getInventory"
        => Len(last'.result) = Len(ItemsOf(inventory, last'.input.user_id))
     /\ (last'.op = "generateMealPlan" /\ last'.outcome = "ok")
        => /\ last'.inventoryItems = calls[last'.request].inventoryItems
           /\ Len(mealPlans') = Len(mealPlans) + 1
           /\ mealPlans'[Len(mealPlans')].user_id = last'.input.user_id]_vars

\* reached: a Generate has stored a plan made from an empty inventory while
\* a Refresh of the same account, which deleted the items the account had
\* and has items to insert, is still before its insert
C30_Witness ==
  /\ last.op = "generateMealPlan"
  /\ last.outcome = "ok"
  /\ last.inventoryItems = << >>
  /\ mealPlans # << >>
  /\ \E r \in RefreshesBetweenDeleteAndInsert(last.input.user_id) :
       /\ calls[r].deleted # << >>
       /\ calls[r].items # << >>

====
